---- MODULE Spec2Model ----
(***************************************************************************)
(* The upgrade-program (programs/upgrade-program): an UpgradeAdmin record  *)
(* per governed contract holds a secp256k1 public key and a nonce; the     *)
(* holder of the key authorises ChangePublicKey, ChangeAuthority and       *)
(* Upgrade by signing keccak(contract ++ nonce_be ++ HASH_CONSTANT ++      *)
(* payload).  One action per instruction; an invocation is atomic.         *)
(*                                                                         *)
(* Abstractions: a 32-byte Pubkey is one integer ("word"), a 64-byte       *)
(* secp256k1 key is two words, keccak is injective (its value is the       *)
(* digested byte string), a signature is the pair (signer, signed bytes)   *)
(* and recovery returns the signer exactly for the signed digest and the   *)
(* signature's own recovery id.                                            *)
(***************************************************************************)
EXTENDS Integers, Sequences, FiniteSets, TLC

VARIABLES accounts, lastOp, accepted, successes, verifierCall

vars == <<accounts, lastOp, accepted, successes, verifierCall>>

(***************************************************************************)
(* Bounds of the model.                                                    *)
(***************************************************************************)
\* the number of successful signature-gated operations explored (the nonce is a
\* u64 and wraps only after 2^64 of them)
MaxOps == 2

(***************************************************************************)
(* Program constants.                                                      *)
(***************************************************************************)
\* state.rs: 64 + 32 + 8 + 1
MAX_ADMIN_SIZE == 105
\* lib.rs: "solana-upgrade-program", as one word of the message
HASH_CONSTANT == 900
\* lib.rs: "admin-upgrade-account"; the seed offsets the derived address
PDA_ADMIN_SEED == 100
\* number of bytes of u64::to_be_bytes
NONCE_BYTES == 8
\* Pubkey::default(), the all-zero key (also the system program's id)
DefaultPubkey == 0
\* sysvar::rent::id() and sysvar::clock::id()
RentSysvar == 60
ClockSysvar == 61

(***************************************************************************)
(* Values the callers draw their inputs from.                              *)
(***************************************************************************)
\* governed programs (the resource ids)
Contracts == {DefaultPubkey, 1}
\* accounts named as new authority or as upgrade buffer
Targets == {11, 12}
\* secp256k1 public keys whose holders sign
Keys == {201, 202}
\* what recovery yields for a digest the signature was not made for
UnrelatedKey == 299
\* accounts that are no derived address: one holding bytes that decode to an
\* initialized record, one holding zeroed bytes
FakeAdmin == 50
BlankAccount == 51

\* Pubkey::find_program_address(&[PDA_ADMIN_SEED, contract], program_id).0
find_program_address(contract) == PDA_ADMIN_SEED + contract

Addresses == {find_program_address(c) : c \in Contracts} \cup {FakeAdmin, BlankAccount}

(***************************************************************************)
(* ProgramError values.                                                    *)
(***************************************************************************)
Ok == <<"Ok", 0>>
Custom(n) == <<"Custom", n>>
InvalidArgument == <<"InvalidArgument", 0>>
BorshIoError == <<"BorshIoError", 0>>
\* a failure of the BPF loader (set_upgrade_authority / upgrade)
LoaderError == <<"IncorrectAuthority", 0>>

\* error.rs: UpgradeError as u32
AlreadyInUse == Custom(0)
NotInitialized == Custom(1)
WrongAdmin == Custom(2)
WrongSeeds == Custom(3)
WrongSignature == Custom(4)
InvalidSignature == Custom(5)

(***************************************************************************)
(* Account data.  An account that does not exist has no data; the data of  *)
(* an existing one is viewed through its borsh decoding.                   *)
(***************************************************************************)
NoAccount == [len |-> 0, public_key |-> 0, contract |-> DefaultPubkey,
              nonce |-> 0, is_initialized |-> FALSE]

\* state.rs: struct UpgradeAdmin, stored in MAX_ADMIN_SIZE bytes
UpgradeAdmin(pk, c, n, init) ==
    [len |-> MAX_ADMIN_SIZE, public_key |-> pk, contract |-> c,
     nonce |-> n, is_initialized |-> init]

\* the data of a freshly created account: MAX_ADMIN_SIZE zero bytes
Zeroed == UpgradeAdmin(0, DefaultPubkey, 0, FALSE)

\* BorshDeserialize::deserialize(&mut data): fails on data shorter than the record
Deserializes(data) == data.len >= MAX_ADMIN_SIZE

(***************************************************************************)
(* Message Builder and Signature Verifier.                                 *)
(***************************************************************************)
RECURSIVE to_be_bytes(_, _)
\* u64::to_be_bytes: the k low-order bytes of n, most significant first
to_be_bytes(n, k) ==
    IF k = 0 THEN <<>> ELSE Append(to_be_bytes(n \div 256, k - 1), n % 256)

\* as_ref() of a Pubkey (one word) and of a secp256k1 key (two words)
PubkeyBytes(p) == <<p>>
KeyBytes(k) == <<k, k>>

\* the message built without the nonce
MessageWithoutNonce(contract, nonce, payload) ==
    PubkeyBytes(contract) \o <<HASH_CONSTANT>> \o payload

\* the message built without the contract, as in the comments of
\* ChangePublicKeyArgs and ChangeAuthorityArgs
MessageWithoutContract(contract, nonce, payload) ==
    to_be_bytes(nonce, NONCE_BYTES) \o <<HASH_CONSTANT>> \o payload

\* [contract, nonce.to_be_bytes(), HASH_CONSTANT, payload].concat()
Message(contract, nonce, payload) ==
    PubkeyBytes(contract) \o to_be_bytes(nonce, NONCE_BYTES) \o <<HASH_CONSTANT>> \o payload

\* solana_program::keccak::hash, collision free
keccak(bytes) == [digest |-> bytes]

\* the recovery id a signer's signature carries
RecIdOf(signer) == signer % 2

\* the signature of `signer` over keccak(msg)
Sign(signer, msg) == [signer |-> signer, msg |-> msg]
Garbage == [signer |-> 0, msg |-> <<>>]
NoSignature == [signer |-> -1, msg |-> <<>>]

\* secp256k1_recover(hash, reid, sig): an error, or the recovered key
secp256k1_recover(hash, reid, sig) ==
    IF reid \notin 0..3 \/ sig = Garbage THEN [ok |-> FALSE, key |-> 0]
    ELSE IF hash = keccak(sig.msg) /\ reid = RecIdOf(sig.signer)
         THEN [ok |-> TRUE, key |-> sig.signer]
         ELSE [ok |-> TRUE, key |-> UnrelatedKey]

\* the verifier without the comparison with the stored key
verify_recovers_only(hash, sig, reid, target_key) ==
    IF ~secp256k1_recover(hash, reid, sig).ok THEN InvalidSignature ELSE Ok

\* the verifier reporting every failure as WrongSignature
verify_conflates_errors(hash, sig, reid, target_key) ==
    LET recovered_key == secp256k1_recover(hash, reid, sig)
    IN  IF ~recovered_key.ok \/ recovered_key.key # target_key THEN WrongSignature
        ELSE Ok

\* ecdsa.rs
verify_ecdsa_signature(hash, sig, reid, target_key) ==
    LET recovered_key == secp256k1_recover(hash, reid, sig)
    IN  IF ~recovered_key.ok THEN InvalidSignature
        ELSE IF recovered_key.key # target_key THEN WrongSignature
        ELSE Ok

(***************************************************************************)
(* External collaborators, at their interface.                             *)
(***************************************************************************)
NoCpi == <<"none", 0, 0>>

\* an account creation that does not refuse an address in use
create_account_overwrites(accts, to, space, funded) ==
    IF ~funded THEN [err |-> Custom(1), data |-> accts[to]]
    ELSE [err |-> Ok, data |-> [Zeroed EXCEPT !.len = space]]

\* system_instruction::create_account through invoke_signed: the system program
\* refuses an address that is already in use (SystemError::AccountAlreadyInUse,
\* ProgramError::Custom(0)) and a payer that cannot fund the account
\* (SystemError::ResultWithNegativeLamports, Custom(1)); otherwise the account
\* exists afterwards with `space` zero bytes
create_account(accts, to, space, funded) ==
    IF accts[to].len > 0 THEN [err |-> Custom(0), data |-> accts[to]]
    ELSE IF ~funded THEN [err |-> Custom(1), data |-> accts[to]]
    ELSE [err |-> Ok, data |-> [Zeroed EXCEPT !.len = space]]

\* Rent::from_account_info: the account must be the rent sysvar
RentFromAccountInfo(rent_key) == IF rent_key = RentSysvar THEN Ok ELSE InvalidArgument

(***************************************************************************)
(* Operation handlers (processor.rs).  A handler's result: the error it    *)
(* returns, the step that returned it, whether the signature verifier ran, *)
(* the collaborator call it made and the data of the record afterwards.    *)
(***************************************************************************)
Result(err, step, verified, cpi, data) ==
    [err |-> err, step |-> step, verified |-> verified, cpi |-> cpi, data |-> data]

\* the increment that also blanks the contract
BumpNonceDropsContract(upgrade_admin) ==
    [upgrade_admin EXCEPT !.nonce = upgrade_admin.nonce + 1, !.contract = DefaultPubkey]

\* the increment forgotten
BumpNonceLost(upgrade_admin) == upgrade_admin

\* upgrade_admin.nonce = upgrade_admin.nonce + 1 (a u64: it wraps after 2^64 - 1,
\* far beyond the operations explored)
BumpNonce(upgrade_admin) == [upgrade_admin EXCEPT !.nonce = upgrade_admin.nonce + 1]

\* InitializeAdmin without the address check
process_init_admin_anywhere(accts, admin, rent_key, public_key, upgrade_program, funded) ==
    LET call == <<"create_account", admin, MAX_ADMIN_SIZE>>
        created == create_account(accts, admin, MAX_ADMIN_SIZE, funded)
        upgrade_admin == created.data
    IN  IF RentFromAccountInfo(rent_key) # Ok
        THEN Result(RentFromAccountInfo(rent_key), "rent", FALSE, NoCpi, accts[admin])
        ELSE IF created.err # Ok
        THEN Result(created.err, "create", FALSE, call, accts[admin])
        ELSE IF ~Deserializes(upgrade_admin)
        THEN Result(BorshIoError, "decode", FALSE, call, upgrade_admin)
        ELSE IF upgrade_admin.is_initialized
        THEN Result(AlreadyInUse, "initialized", FALSE, call, upgrade_admin)
        ELSE Result(Ok, "done", FALSE, call,
                    [upgrade_admin EXCEPT !.contract = upgrade_program,
                                          !.public_key = public_key,
                                          !.is_initialized = TRUE,
                                          !.nonce = 0])

\* InitializeAdmin that does not record the contract
process_init_admin_unbound(accts, admin, rent_key, public_key, upgrade_program, funded) ==
    LET upgrade_key == find_program_address(upgrade_program)
        call == <<"create_account", admin, MAX_ADMIN_SIZE>>
        created == create_account(accts, admin, MAX_ADMIN_SIZE, funded)
        upgrade_admin == created.data
    IN  IF upgrade_key # admin
        THEN Result(WrongAdmin, "address", FALSE, NoCpi, accts[admin])
        ELSE IF RentFromAccountInfo(rent_key) # Ok
        THEN Result(RentFromAccountInfo(rent_key), "rent", FALSE, NoCpi, accts[admin])
        ELSE IF created.err # Ok
        THEN Result(created.err, "create", FALSE, call, accts[admin])
        ELSE IF ~Deserializes(upgrade_admin)
        THEN Result(BorshIoError, "decode", FALSE, call, upgrade_admin)
        ELSE IF upgrade_admin.is_initialized
        THEN Result(AlreadyInUse, "initialized", FALSE, call, upgrade_admin)
        ELSE Result(Ok, "done", FALSE, call,
                    [upgrade_admin EXCEPT !.public_key = public_key,
                                          !.is_initialized = TRUE,
                                          !.nonce = 0])

\* InitializeAdmin that creates the account only where none exists and does
\* not look at is_initialized
process_init_admin_if_needed(accts, admin, rent_key, public_key, upgrade_program, funded) ==
    LET upgrade_key == find_program_address(upgrade_program)
        call == <<"create_account", admin, MAX_ADMIN_SIZE>>
        created == IF accts[admin].len > 0 THEN [err |-> Ok, data |-> accts[admin]]
                   ELSE create_account(accts, admin, MAX_ADMIN_SIZE, funded)
        upgrade_admin == created.data
    IN  IF upgrade_key # admin
        THEN Result(WrongAdmin, "address", FALSE, NoCpi, accts[admin])
        ELSE IF RentFromAccountInfo(rent_key) # Ok
        THEN Result(RentFromAccountInfo(rent_key), "rent", FALSE, NoCpi, accts[admin])
        ELSE IF created.err # Ok
        THEN Result(created.err, "create", FALSE, call, accts[admin])
        ELSE Result(Ok, "done", FALSE, call,
                    [upgrade_admin EXCEPT !.contract = upgrade_program,
                                          !.public_key = public_key,
                                          !.is_initialized = TRUE,
                                          !.nonce = 0])

process_init_admin(accts, admin, rent_key, public_key, upgrade_program, funded) ==
    LET upgrade_key == find_program_address(upgrade_program)
        call == <<"create_account", admin, MAX_ADMIN_SIZE>>
        created == create_account(accts, admin, MAX_ADMIN_SIZE, funded)
        upgrade_admin == created.data
    IN  IF upgrade_key # admin
        THEN Result(WrongAdmin, "address", FALSE, NoCpi, accts[admin])
        ELSE IF RentFromAccountInfo(rent_key) # Ok
        THEN Result(RentFromAccountInfo(rent_key), "rent", FALSE, NoCpi, accts[admin])
        ELSE IF created.err # Ok
        THEN Result(created.err, "create", FALSE, call, accts[admin])
        ELSE IF ~Deserializes(upgrade_admin)
        THEN Result(BorshIoError, "decode", FALSE, call, accts[admin])
        ELSE IF upgrade_admin.is_initialized
        THEN Result(AlreadyInUse, "initialized", FALSE, call, accts[admin])
        ELSE Result(Ok, "done", FALSE, call,
                    [upgrade_admin EXCEPT !.contract = upgrade_program,
                                          !.public_key = public_key,
                                          !.is_initialized = TRUE,
                                          !.nonce = 0])

\* ChangePublicKey with the address check before the initialization check
process_change_public_key_address_first(accts, admin, new_public_key, signature, recovery_id) ==
    LET upgrade_admin == accts[admin]
        upgrade_admin_key == find_program_address(upgrade_admin.contract)
        verdict == verify_ecdsa_signature(
                       keccak(Message(upgrade_admin.contract, upgrade_admin.nonce,
                                      KeyBytes(new_public_key))),
                       signature, recovery_id, upgrade_admin.public_key)
    IN  IF ~Deserializes(upgrade_admin)
        THEN Result(BorshIoError, "decode", FALSE, NoCpi, upgrade_admin)
        ELSE IF upgrade_admin_key # admin
        THEN Result(WrongSeeds, "address", FALSE, NoCpi, upgrade_admin)
        ELSE IF ~upgrade_admin.is_initialized
        THEN Result(NotInitialized, "initialized", FALSE, NoCpi, upgrade_admin)
        ELSE IF verdict # Ok
        THEN Result(verdict, "verify", TRUE, NoCpi, upgrade_admin)
        ELSE Result(Ok, "done", TRUE, NoCpi,
                    BumpNonce([upgrade_admin EXCEPT !.public_key = new_public_key]))

process_change_public_key(accts, admin, new_public_key, signature, recovery_id) ==
    LET upgrade_admin == accts[admin]
        upgrade_admin_key == find_program_address(upgrade_admin.contract)
        verdict == verify_ecdsa_signature(
                       keccak(Message(upgrade_admin.contract, upgrade_admin.nonce,
                                      KeyBytes(new_public_key))),
                       signature, recovery_id, upgrade_admin.public_key)
    IN  IF ~Deserializes(upgrade_admin)
        THEN Result(BorshIoError, "decode", FALSE, NoCpi, upgrade_admin)
        ELSE IF ~upgrade_admin.is_initialized
        THEN Result(NotInitialized, "initialized", FALSE, NoCpi, upgrade_admin)
        ELSE IF upgrade_admin_key # admin
        THEN Result(WrongSeeds, "address", FALSE, NoCpi, upgrade_admin)
        ELSE IF verdict # Ok
        THEN Result(verdict, "verify", TRUE, NoCpi, upgrade_admin)
        ELSE Result(Ok, "done", TRUE, NoCpi,
                    BumpNonce([upgrade_admin EXCEPT !.public_key = new_public_key]))

\* ChangeAuthority that serializes the incremented record before invoking the loader
process_change_authority_writes_first(accts, admin, authority, signature, recovery_id, loaderOk) ==
    LET upgrade_admin == accts[admin]
        upgrade_admin_key == find_program_address(upgrade_admin.contract)
        verdict == verify_ecdsa_signature(
                       keccak(Message(upgrade_admin.contract, upgrade_admin.nonce,
                                      PubkeyBytes(authority))),
                       signature, recovery_id, upgrade_admin.public_key)
        call == <<"set_upgrade_authority", upgrade_admin.contract, authority>>
    IN  IF ~Deserializes(upgrade_admin)
        THEN Result(BorshIoError, "decode", FALSE, NoCpi, upgrade_admin)
        ELSE IF ~upgrade_admin.is_initialized
        THEN Result(NotInitialized, "initialized", FALSE, NoCpi, upgrade_admin)
        ELSE IF upgrade_admin_key # admin
        THEN Result(WrongSeeds, "address", FALSE, NoCpi, upgrade_admin)
        ELSE IF verdict # Ok
        THEN Result(verdict, "verify", TRUE, NoCpi, upgrade_admin)
        ELSE IF ~loaderOk
        THEN Result(LoaderError, "cpi", TRUE, call, BumpNonce(upgrade_admin))
        ELSE Result(Ok, "done", TRUE, call, BumpNonce(upgrade_admin))

\* ChangeAuthority without the initialization check
process_change_authority_unchecked(accts, admin, authority, signature, recovery_id, loaderOk) ==
    LET upgrade_admin == accts[admin]
        upgrade_admin_key == find_program_address(upgrade_admin.contract)
        verdict == verify_ecdsa_signature(
                       keccak(Message(upgrade_admin.contract, upgrade_admin.nonce,
                                      PubkeyBytes(authority))),
                       signature, recovery_id, upgrade_admin.public_key)
        call == <<"set_upgrade_authority", upgrade_admin.contract, authority>>
    IN  IF ~Deserializes(upgrade_admin)
        THEN Result(BorshIoError, "decode", FALSE, NoCpi, upgrade_admin)
        ELSE IF upgrade_admin_key # admin
        THEN Result(WrongSeeds, "address", FALSE, NoCpi, upgrade_admin)
        ELSE IF verdict # Ok
        THEN Result(verdict, "verify", TRUE, NoCpi, upgrade_admin)
        ELSE IF ~loaderOk
        THEN Result(LoaderError, "cpi", TRUE, call, upgrade_admin)
        ELSE Result(Ok, "done", TRUE, call, BumpNonce(upgrade_admin))

process_change_authority(accts, admin, authority, signature, recovery_id, loaderOk) ==
    LET upgrade_admin == accts[admin]
        upgrade_admin_key == find_program_address(upgrade_admin.contract)
        verdict == verify_ecdsa_signature(
                       keccak(Message(upgrade_admin.contract, upgrade_admin.nonce,
                                      PubkeyBytes(authority))),
                       signature, recovery_id, upgrade_admin.public_key)
        call == <<"set_upgrade_authority", upgrade_admin.contract, authority>>
    IN  IF ~Deserializes(upgrade_admin)
        THEN Result(BorshIoError, "decode", FALSE, NoCpi, upgrade_admin)
        ELSE IF ~upgrade_admin.is_initialized
        THEN Result(NotInitialized, "initialized", FALSE, NoCpi, upgrade_admin)
        ELSE IF upgrade_admin_key # admin
        THEN Result(WrongSeeds, "address", FALSE, NoCpi, upgrade_admin)
        ELSE IF verdict # Ok
        THEN Result(verdict, "verify", TRUE, NoCpi, upgrade_admin)
        ELSE IF ~loaderOk
        THEN Result(LoaderError, "cpi", TRUE, call, upgrade_admin)
        ELSE Result(Ok, "done", TRUE, call,
                    BumpNonce(upgrade_admin))

\* Upgrade that derives the address from the stored contract, as the other
\* handlers do, and upgrades the program account it was given
process_upgrade_trusts_record(accts, admin, upgrade_program, upgrade_buffer, signature, recovery_id, loaderOk) ==
    LET upgrade_admin == accts[admin]
        upgrade_admin_key == find_program_address(upgrade_admin.contract)
        verdict == verify_ecdsa_signature(
                       keccak(Message(upgrade_admin.contract, upgrade_admin.nonce,
                                      PubkeyBytes(upgrade_buffer))),
                       signature, recovery_id, upgrade_admin.public_key)
        call == <<"upgrade", upgrade_program, upgrade_buffer>>
    IN  IF ~Deserializes(upgrade_admin)
        THEN Result(BorshIoError, "decode", FALSE, NoCpi, upgrade_admin)
        ELSE IF ~upgrade_admin.is_initialized
        THEN Result(NotInitialized, "initialized", FALSE, NoCpi, upgrade_admin)
        ELSE IF upgrade_admin_key # admin
        THEN Result(WrongSeeds, "address", FALSE, NoCpi, upgrade_admin)
        ELSE IF verdict # Ok
        THEN Result(verdict, "verify", TRUE, NoCpi, upgrade_admin)
        ELSE IF ~loaderOk
        THEN Result(LoaderError, "cpi", TRUE, call, upgrade_admin)
        ELSE Result(Ok, "done", TRUE, call, BumpNonce(upgrade_admin))

\* Upgrade that invokes the loader before it looks at the verifier's verdict
process_upgrade_invokes_first(accts, admin, upgrade_program, upgrade_buffer, signature, recovery_id, loaderOk) ==
    LET upgrade_admin_key == find_program_address(upgrade_program)
        upgrade_admin == accts[admin]
        verdict == verify_ecdsa_signature(
                       keccak(Message(upgrade_admin.contract, upgrade_admin.nonce,
                                      PubkeyBytes(upgrade_buffer))),
                       signature, recovery_id, upgrade_admin.public_key)
        call == <<"upgrade", upgrade_program, upgrade_buffer>>
    IN  IF upgrade_admin_key # admin
        THEN Result(WrongSeeds, "address", FALSE, NoCpi, upgrade_admin)
        ELSE IF ~Deserializes(upgrade_admin)
        THEN Result(BorshIoError, "decode", FALSE, NoCpi, upgrade_admin)
        ELSE IF ~upgrade_admin.is_initialized
        THEN Result(NotInitialized, "initialized", FALSE, NoCpi, upgrade_admin)
        ELSE IF ~loaderOk
        THEN Result(LoaderError, "cpi", TRUE, call, upgrade_admin)
        ELSE IF verdict # Ok
        THEN Result(verdict, "verify", TRUE, call, upgrade_admin)
        ELSE Result(Ok, "done", TRUE, call, BumpNonce(upgrade_admin))

\* Upgrade that verifies the signature before it checks the address
process_upgrade_verifies_first(accts, admin, upgrade_program, upgrade_buffer, signature, recovery_id, loaderOk) ==
    LET upgrade_admin_key == find_program_address(upgrade_program)
        upgrade_admin == accts[admin]
        verdict == verify_ecdsa_signature(
                       keccak(Message(upgrade_admin.contract, upgrade_admin.nonce,
                                      PubkeyBytes(upgrade_buffer))),
                       signature, recovery_id, upgrade_admin.public_key)
        call == <<"upgrade", upgrade_program, upgrade_buffer>>
    IN  IF ~Deserializes(upgrade_admin)
        THEN Result(BorshIoError, "decode", FALSE, NoCpi, upgrade_admin)
        ELSE IF ~upgrade_admin.is_initialized
        THEN Result(NotInitialized, "initialized", FALSE, NoCpi, upgrade_admin)
        ELSE IF verdict # Ok
        THEN Result(verdict, "verify", TRUE, NoCpi, upgrade_admin)
        ELSE IF upgrade_admin_key # admin
        THEN Result(WrongSeeds, "address", TRUE, NoCpi, upgrade_admin)
        ELSE IF ~loaderOk
        THEN Result(LoaderError, "cpi", TRUE, call, upgrade_admin)
        ELSE Result(Ok, "done", TRUE, call, BumpNonce(upgrade_admin))

process_upgrade(accts, admin, upgrade_program, upgrade_buffer, signature, recovery_id, loaderOk) ==
    LET upgrade_admin_key == find_program_address(upgrade_program)
        upgrade_admin == accts[admin]
        verdict == verify_ecdsa_signature(
                       keccak(Message(upgrade_admin.contract, upgrade_admin.nonce,
                                      PubkeyBytes(upgrade_buffer))),
                       signature, recovery_id, upgrade_admin.public_key)
        call == <<"upgrade", upgrade_program, upgrade_buffer>>
    IN  IF upgrade_admin_key # admin
        THEN Result(WrongSeeds, "address", FALSE, NoCpi, upgrade_admin)
        ELSE IF ~Deserializes(upgrade_admin)
        THEN Result(BorshIoError, "decode", FALSE, NoCpi, upgrade_admin)
        ELSE IF ~upgrade_admin.is_initialized
        THEN Result(NotInitialized, "initialized", FALSE, NoCpi, upgrade_admin)
        ELSE IF verdict # Ok
        THEN Result(verdict, "verify", TRUE, NoCpi, upgrade_admin)
        ELSE IF ~loaderOk
        THEN Result(LoaderError, "cpi", TRUE, call, upgrade_admin)
        ELSE Result(Ok, "done", TRUE, call,
                    BumpNonce(upgrade_admin))

(***************************************************************************)
(* Dispatcher (processor.rs, instructions.rs).  The input is the borsh     *)
(* encoding of UpgradeInstruction: a variant index, then the variant's     *)
(* argument structure; it is modelled by the index, the number of bytes    *)
(* that follow it and the arguments those bytes spell.  The account list   *)
(* is modelled by the roles the handlers read from it.                     *)
(***************************************************************************)
\* the variant index borsh gives each variant of UpgradeInstruction
InstructionTags == 0..3
\* an index that names no variant
UnknownTag == 4

VariantOf(tag) ==
    CASE tag = 0 -> "InitializeAdmin"
      [] tag = 1 -> "ChangePublicKey"
      [] tag = 2 -> "ChangeAuthority"
      [] tag = 3 -> "Upgrade"
      [] OTHER -> "undecoded"

\* the encoded size of the argument structures: InitializeAdminArgs,
\* ChangePublicKeyArgs, ChangeAuthorityArgs, UpgradeArgs
ArgsSize(tag) ==
    CASE tag = 0 -> 64 + 32
      [] tag = 1 -> 64 + 64 + 1
      [] tag = 2 -> 64 + 1
      [] tag = 3 -> 64 + 1
      [] OTHER -> 0

NoArgs == [public_key |-> 0, contract |-> DefaultPubkey, new_public_key |-> 0,
           signature |-> Garbage, recovery_id |-> 0]

\* the accounts of the instruction by role, and what their owners answer
NoInfos == [upgrade_admin_info |-> 0, rent_info |-> RentSysvar, funded |-> TRUE,
            authority |-> 0, upgrade_program |-> DefaultPubkey, upgrade_buffer |-> 0,
            loaderOk |-> TRUE]

\* decoding that takes every unknown index for the last variant and does not
\* look at the length
try_from_slice_lenient(input) ==
    [ok |-> TRUE,
     variant |-> IF input.tag \in InstructionTags THEN VariantOf(input.tag) ELSE "Upgrade",
     args |-> input.args]

\* UpgradeInstruction::try_from_slice: an unknown index, missing bytes and
\* bytes left over are errors
try_from_slice(input) ==
    IF input.tag \in InstructionTags /\ input.size = ArgsSize(input.tag)
    THEN [ok |-> TRUE, variant |-> VariantOf(input.tag), args |-> input.args]
    ELSE [ok |-> FALSE, variant |-> "undecoded", args |-> NoArgs]

\* the handler that ran and its result
process_instruction(accts, infos, input) ==
    LET instruction == try_from_slice(input)
        args == instruction.args
        upgrade_admin_info == infos.upgrade_admin_info
    IN  [variant |-> instruction.variant,
         result |->
           CASE ~instruction.ok ->
                  Result(BorshIoError, "dispatch", FALSE, NoCpi, accts[upgrade_admin_info])
             [] instruction.variant = "InitializeAdmin" ->
                  process_init_admin(accts, upgrade_admin_info, infos.rent_info,
                                     args.public_key, args.contract, infos.funded)
             [] instruction.variant = "ChangePublicKey" ->
                  process_change_public_key(accts, upgrade_admin_info, args.new_public_key,
                                            args.signature, args.recovery_id)
             [] instruction.variant = "ChangeAuthority" ->
                  process_change_authority(accts, upgrade_admin_info, infos.authority,
                                           args.signature, args.recovery_id, infos.loaderOk)
             [] instruction.variant = "Upgrade" ->
                  process_upgrade(accts, upgrade_admin_info, infos.upgrade_program,
                                  infos.upgrade_buffer, args.signature, args.recovery_id,
                                  infos.loaderOk)]

\* the encoding of an instruction of the given variant
Encoded(tag, args) == [tag |-> tag, size |-> ArgsSize(tag), args |-> args]

\* instructions.rs: the client's builder of InitializeAdmin; the instruction's
\* data and its account list (fee payer and system program are the `funded` role)
initialize_admin(contract, public_key) ==
    LET admin == find_program_address(contract)
    IN  [data |-> Encoded(0, [NoArgs EXCEPT !.public_key = public_key,
                                            !.contract = DefaultPubkey]),
         accounts |-> [NoInfos EXCEPT !.upgrade_admin_info = admin,
                                      !.rent_info = ClockSysvar]]

(***************************************************************************)
(* The signatures in circulation: every key holder has signed, for every   *)
(* contract and nonce, a rotation to either key and the target 11; callers *)
(* present any of them, or garbage, with a recovery id of their choice.    *)
(***************************************************************************)
\* what the key holders meant their signatures for: a message over a 64-byte
\* key authorizes a rotation, the message over the account 11 an upgrade to the
\* buffer 11; no holder has signed a transfer of the upgrade authority
ProducedFor(signature) ==
    IF Len(signature.msg) < 2 + NONCE_BYTES THEN "none"
    ELSE IF Len(signature.msg) = 2 + NONCE_BYTES + 2 THEN "ChangePublicKey"
    ELSE "Upgrade"

SignedPayloads == {KeyBytes(k) : k \in Keys} \cup {PubkeyBytes(11)}

SignedMessages ==
    {Message(c, n, p) : c \in Contracts, n \in 0..(MaxOps - 1), p \in SignedPayloads}

Signatures == {Sign(k, m) : k \in Keys, m \in SignedMessages}

RecoveryIds == {0, 1, 4}

Presented ==
    {[signature |-> s, recovery_id |-> i] : s \in Signatures \cup {Garbage}, i \in RecoveryIds}

\* who produced the presented (signature, recovery id), 0 when nobody did
SignedBy(signature, recovery_id) ==
    IF signature # Garbage /\ recovery_id = RecIdOf(signature.signer)
    THEN signature.signer ELSE 0

(***************************************************************************)
(* State.  accounts: the data at each address.  lastOp: the invocation     *)
(* that has just run and what it returned (NoOp between invocations).      *)
(* accepted: the successful signature-gated invocations so far.            *)
(* successes: their number per address.                                    *)
(***************************************************************************)
\* how the signature the verifier was given relates to the message the handler
\* built: is it over the same contract, the same nonce bytes, the same payload
NoMatch == [contract |-> FALSE, nonce |-> FALSE, payload |-> FALSE]

About(signature, record, payload) ==
    IF Len(signature.msg) < 2 + NONCE_BYTES THEN NoMatch
    ELSE [contract |-> SubSeq(signature.msg, 1, 1) = PubkeyBytes(record.contract),
          nonce |-> SubSeq(signature.msg, 2, 1 + NONCE_BYTES)
                        = to_be_bytes(record.nonce, NONCE_BYTES),
          payload |-> SubSeq(signature.msg, 3 + NONCE_BYTES, Len(signature.msg)) = payload]

\* a call of the verifier on its own: its four arguments, its verdict, and the
\* verdict of a second call with the same arguments
Pending == <<"Pending", 0>>
NoCall == [hash |-> keccak(<<>>), sig |-> Garbage, reid |-> 0, target_key |-> 0,
           verdict |-> Pending, again |-> Pending]

NoOp == [op |-> "none", built |-> FALSE, asked |-> DefaultPubkey,
         tag |-> 0, size |-> 0, addr |-> -1, resource |-> DefaultPubkey, bound |-> FALSE,
         rent |-> 0, funded |-> TRUE, payload |-> <<>>,
         err |-> Ok, step |-> "none", verified |-> FALSE, cpi |-> NoCpi,
         pre |-> NoAccount, accepted |-> NoSignature, signedBy |-> 0,
         about |-> NoMatch, replay |-> FALSE]

Init ==
    /\ accounts = [a \in Addresses |->
                     IF a = FakeAdmin THEN UpgradeAdmin(202, 1, 0, TRUE)
                     ELSE IF a = BlankAccount THEN Zeroed
                     ELSE NoAccount]
    /\ lastOp = NoOp
    /\ accepted = {}
    /\ successes = [a \in Addresses |-> 0]
    /\ verifierCall = NoCall

\* the effect and the observation of a signature-gated invocation: `resource` is
\* the contract the handler derives the record's address from, r its result
Apply(input, op, admin, resource, payload, p, r) ==
    /\ r.err = Ok => Cardinality(accepted) < MaxOps
    /\ accounts' = [accounts EXCEPT ![admin] = r.data]
    /\ lastOp' =
         [op |-> op, built |-> FALSE, asked |-> DefaultPubkey,
          tag |-> input.tag, size |-> input.size,
          addr |-> admin, resource |-> resource,
          bound |-> find_program_address(resource) = admin,
          rent |-> 0, funded |-> TRUE, payload |-> IF r.step \in {"cpi", "done"} THEN payload ELSE <<>>,
          err |-> r.err, step |-> r.step, verified |-> r.verified, cpi |-> r.cpi,
          pre |-> accounts[admin],
          accepted |-> IF r.step \in {"cpi", "done"} THEN p.signature ELSE NoSignature,
          signedBy |-> SignedBy(p.signature, p.recovery_id),
          about |-> IF r.verified THEN About(p.signature, accounts[admin], payload)
                    ELSE NoMatch,
          replay |-> \E e \in accepted :
                        /\ e.addr = admin
                        /\ e.signature = p.signature
                        /\ e.recovery_id = p.recovery_id
                        /\ e.payload = payload
                        /\ e.nonce < accounts[admin].nonce]
    /\ successes' = [successes EXCEPT ![admin] = IF r.err = Ok THEN @ + 1 ELSE @]
    /\ accepted' = IF r.err = Ok
                   THEN accepted \cup {[addr |-> admin, signature |-> p.signature,
                                        recovery_id |-> p.recovery_id, payload |-> payload,
                                        nonce |-> accounts[admin].nonce]}
                   ELSE accepted
    /\ UNCHANGED verifierCall

InitializeAdmin ==
    /\ lastOp = NoOp
    /\ \E admin \in Addresses, rent_key \in {RentSysvar, ClockSysvar},
       public_key \in Keys, contract \in Contracts, funded \in BOOLEAN :
         LET input == Encoded(0, [NoArgs EXCEPT !.public_key = public_key,
                                                !.contract = contract])
             infos == [NoInfos EXCEPT !.upgrade_admin_info = admin,
                                      !.rent_info = rent_key, !.funded = funded]
             d == process_instruction(accounts, infos, input)
             r == d.result
         IN  /\ accounts' = [accounts EXCEPT ![admin] = r.data]
             /\ lastOp' = [NoOp EXCEPT !.op = d.variant, !.tag = input.tag,
                                       !.size = input.size, !.addr = admin,
                                       !.resource = contract,
                                       !.bound = (find_program_address(contract) = admin),
                                       !.rent = rent_key, !.funded = funded,
                                       !.payload = KeyBytes(public_key),
                                       !.err = r.err, !.step = r.step,
                                       !.cpi = r.cpi, !.pre = accounts[admin]]
             /\ UNCHANGED <<accepted, successes, verifierCall>>

ChangePublicKey ==
    /\ lastOp = NoOp
    /\ \E admin \in Addresses, new_public_key \in Keys, p \in Presented :
         LET input == Encoded(1, [NoArgs EXCEPT !.new_public_key = new_public_key,
                                                !.signature = p.signature,
                                                !.recovery_id = p.recovery_id])
             infos == [NoInfos EXCEPT !.upgrade_admin_info = admin]
             d == process_instruction(accounts, infos, input)
         IN  Apply(input, d.variant, admin, accounts[admin].contract,
                   KeyBytes(new_public_key), p, d.result)

\* the loader's answer is drawn where the loader is called
ChangeAuthority ==
    /\ lastOp = NoOp
    /\ \E admin \in Addresses, authority \in Targets, p \in Presented :
         \E loaderOk \in IF process_change_authority(accounts, admin, authority, p.signature,
                                                     p.recovery_id, TRUE).err = Ok
                         THEN BOOLEAN ELSE {TRUE} :
             LET input == Encoded(2, [NoArgs EXCEPT !.signature = p.signature,
                                                    !.recovery_id = p.recovery_id])
                 infos == [NoInfos EXCEPT !.upgrade_admin_info = admin,
                                          !.authority = authority, !.loaderOk = loaderOk]
                 d == process_instruction(accounts, infos, input)
             IN  Apply(input, d.variant, admin, accounts[admin].contract,
                       PubkeyBytes(authority), p, d.result)

Upgrade ==
    /\ lastOp = NoOp
    /\ \E admin \in Addresses, upgrade_program \in Contracts, upgrade_buffer \in Targets,
          p \in Presented :
         \E loaderOk \in IF process_upgrade(accounts, admin, upgrade_program, upgrade_buffer,
                                            p.signature, p.recovery_id, TRUE).err = Ok
                         THEN BOOLEAN ELSE {TRUE} :
             LET input == Encoded(3, [NoArgs EXCEPT !.signature = p.signature,
                                                    !.recovery_id = p.recovery_id])
                 infos == [NoInfos EXCEPT !.upgrade_admin_info = admin,
                                          !.upgrade_program = upgrade_program,
                                          !.upgrade_buffer = upgrade_buffer,
                                          !.loaderOk = loaderOk]
                 d == process_instruction(accounts, infos, input)
             IN  Apply(input, d.variant, admin, upgrade_program,
                       PubkeyBytes(upgrade_buffer), p, d.result)

\* a client builds InitializeAdmin for `contract` with the crate's builder and
\* submits what it built
BuiltInitializeAdmin ==
    /\ lastOp = NoOp
    /\ \E contract \in Contracts, public_key \in Keys, funded \in BOOLEAN :
         LET instruction == initialize_admin(contract, public_key)
             input == instruction.data
             infos == [instruction.accounts EXCEPT !.funded = funded]
             admin == infos.upgrade_admin_info
             d == process_instruction(accounts, infos, input)
             r == d.result
         IN  /\ accounts' = [accounts EXCEPT ![admin] = r.data]
             /\ lastOp' = [NoOp EXCEPT !.op = d.variant, !.built = TRUE,
                                       !.asked = contract, !.tag = input.tag,
                                       !.size = input.size, !.addr = admin,
                                       !.resource = input.args.contract,
                                       !.bound = (find_program_address(input.args.contract)
                                                     = admin),
                                       !.rent = infos.rent_info, !.funded = funded,
                                       !.payload = KeyBytes(input.args.public_key),
                                       !.err = r.err, !.step = r.step,
                                       !.cpi = r.cpi, !.pre = accounts[admin]]
             /\ UNCHANGED <<accepted, successes, verifierCall>>

\* an input that is no encoding of an instruction: an unknown variant index, or
\* a known one followed by one byte too few or too many
Undecodable ==
    /\ lastOp = NoOp
    /\ \E admin \in Addresses, tag \in InstructionTags \cup {UnknownTag},
          excess \in {-1, 0, 1} :
         /\ tag \in InstructionTags => excess # 0
         /\ tag = UnknownTag => excess # -1
         /\ LET p == [signature |-> Sign(202, Message(1, 0, PubkeyBytes(11))),
                      recovery_id |-> RecIdOf(202)]
                input == [tag |-> tag, size |-> ArgsSize(tag) + excess,
                          args |-> [NoArgs EXCEPT !.public_key = 201, !.contract = 1,
                                                  !.new_public_key = 201,
                                                  !.signature = p.signature,
                                                  !.recovery_id = p.recovery_id]]
                infos == [NoInfos EXCEPT !.upgrade_admin_info = admin, !.authority = 11,
                                         !.upgrade_program = 1, !.upgrade_buffer = 11]
                d == process_instruction(accounts, infos, input)
                r == d.result
            IN  /\ accounts' = [accounts EXCEPT ![admin] = r.data]
                /\ lastOp' = [NoOp EXCEPT !.op = d.variant, !.tag = tag,
                                          !.size = input.size, !.addr = admin,
                                          !.err = r.err, !.step = r.step,
                                          !.verified = r.verified, !.cpi = r.cpi,
                                          !.pre = accounts[admin]]
                /\ successes' = [successes EXCEPT ![admin] = IF r.err = Ok THEN @ + 1 ELSE @]
                /\ UNCHANGED <<accepted, verifierCall>>

\* the invocation has run to completion: its result goes back to the runtime,
\* which hands the program its next instruction
Return ==
    /\ lastOp # NoOp
    /\ lastOp' = NoOp
    /\ UNCHANGED <<accounts, accepted, successes, verifierCall>>

\* processor.rs: process_instruction dispatches to exactly one handler
Next ==
    \/ InitializeAdmin \/ ChangePublicKey \/ ChangeAuthority \/ Upgrade
    \/ BuiltInitializeAdmin \/ Undecodable \/ Return

Spec == Init /\ [][Next]_vars

(***************************************************************************)
(* The Signature Verifier on its own: any digest, signature, recovery id   *)
(* and expected key; no record is involved.                                *)
(***************************************************************************)
Hashes == {keccak(m) : m \in SignedMessages}

VerifyInit ==
    /\ accounts = [a \in Addresses |-> NoAccount]
    /\ lastOp = NoOp
    /\ accepted = {}
    /\ successes = [a \in Addresses |-> 0]
    /\ verifierCall \in {[NoCall EXCEPT !.hash = h, !.sig = s, !.reid = i, !.target_key = k] :
                     h \in Hashes, s \in Signatures \cup {Garbage}, i \in RecoveryIds,
                     k \in Keys \cup {UnrelatedKey}}

Verify ==
    /\ verifierCall.verdict = Pending
    /\ verifierCall' = [verifierCall EXCEPT !.verdict =
                    verify_ecdsa_signature(verifierCall.hash, verifierCall.sig, verifierCall.reid, verifierCall.target_key)]
    /\ UNCHANGED <<accounts, lastOp, accepted, successes>>

VerifyAgain ==
    /\ verifierCall.verdict # Pending /\ verifierCall.again = Pending
    /\ verifierCall' = [verifierCall EXCEPT !.again =
                    verify_ecdsa_signature(verifierCall.hash, verifierCall.sig, verifierCall.reid, verifierCall.target_key)]
    /\ UNCHANGED <<accounts, lastOp, accepted, successes>>

VerifyNext == Verify \/ VerifyAgain

VerifySpec == VerifyInit /\ [][VerifyNext]_vars

(***************************************************************************)
(* Properties.                                                             *)
(***************************************************************************)
Mutating == {"ChangePublicKey", "ChangeAuthority", "Upgrade"}

\* the payloads a message can carry
Payloads == {KeyBytes(k) : k \in Keys} \cup {PubkeyBytes(t) : t \in Targets}

\* the invocation addressed the record: it passed the address and the
\* initialization checks and reached the signature verifier
Addressed == lastOp.op \in Mutating /\ lastOp.bound /\ lastOp.pre.is_initialized

\* C1 Replay rejection: an invocation that presents to a record, at a later
\* nonce, the signature, recovery id and payload of an invocation that succeeded
\* on it fails with WrongSignature and leaves the record as it was.
C1_ReplayRejected ==
    (Addressed /\ lastOp.replay) =>
        /\ lastOp.err = WrongSignature
        /\ accounts[lastOp.addr] = lastOp.pre

\* a ChangeAuthority or Upgrade signature is presented again after it succeeded
C1_Witness ==
    /\ Addressed /\ lastOp.replay
    /\ lastOp.op \in {"ChangeAuthority", "Upgrade"}
    /\ lastOp.signedBy = lastOp.pre.public_key
    /\ lastOp.about.contract /\ lastOp.about.payload
    /\ lastOp.err = WrongSignature

C3_MonotonicNonce ==
    /\ \A a \in Addresses :
          accounts[a].is_initialized => accounts[a].nonce = successes[a]
    /\ (lastOp.op = "InitializeAdmin" /\ lastOp.err = Ok) =>
          accounts[lastOp.addr].nonce = 0
    /\ (lastOp.op = "InitializeAdmin" /\ lastOp.err # Ok) =>
          accounts[lastOp.addr].nonce = lastOp.pre.nonce
    /\ lastOp.op \in Mutating =>
          accounts[lastOp.addr].nonce
              = lastOp.pre.nonce + (IF lastOp.err = Ok THEN 1 ELSE 0)

\* the second successful mutating operation on a record
C3_Witness ==
    /\ lastOp.op \in Mutating /\ lastOp.err = Ok
    /\ lastOp.pre.nonce = 1
    /\ accounts[lastOp.addr].nonce = 2
    /\ successes[lastOp.addr] = 2

\* C5 Sole authority of the current key: an operation succeeds only with a
\* signature of the stored public_key over the message the handler builds; an
\* operation signed by another key holder (after a rotation, by the old key) is
\* refused with WrongSignature, and one signed by the stored key over the current
\* message passes the verifier.
C5_SoleAuthority ==
    /\ lastOp.accepted # NoSignature =>
          /\ lastOp.signedBy = lastOp.pre.public_key
          /\ lastOp.accepted.msg
                 = Message(lastOp.pre.contract, lastOp.pre.nonce, lastOp.payload)
    /\ (Addressed /\ lastOp.signedBy \in Keys \ {lastOp.pre.public_key}) =>
          lastOp.err = WrongSignature
    /\ (Addressed /\ lastOp.signedBy = lastOp.pre.public_key
          /\ lastOp.about.contract /\ lastOp.about.nonce /\ lastOp.about.payload) =>
          lastOp.accepted # NoSignature

\* after a rotation from 201 to 202 signed by 201, a signature of 201 over the
\* current message is refused
C5_Witness ==
    /\ Addressed
    /\ lastOp.signedBy = 201 /\ lastOp.pre.public_key = 202
    /\ lastOp.about.contract /\ lastOp.about.nonce /\ lastOp.about.payload
    /\ lastOp.err = WrongSignature
    /\ \E e \in accepted :
          /\ e.addr = lastOp.addr
          /\ e.signature.signer = 201
          /\ e.payload = KeyBytes(202)

\* C4 All-or-nothing mutation: a ChangePublicKey, ChangeAuthority or Upgrade that
\* returns an error leaves the record as it was; one that succeeds has written the
\* incremented nonce together with its change (the new key for ChangePublicKey,
\* nothing else for the other two).
C4_AllOrNothing ==
    /\ (lastOp.op \in Mutating /\ lastOp.err # Ok) =>
          /\ accounts[lastOp.addr] = lastOp.pre
          /\ successes[lastOp.addr] = lastOp.pre.nonce
    /\ (lastOp.op = "ChangePublicKey" /\ lastOp.err = Ok) =>
          accounts[lastOp.addr] =
              [lastOp.pre EXCEPT !.nonce = lastOp.pre.nonce + 1,
                                 !.public_key = lastOp.payload[1]]
    /\ (lastOp.op \in {"ChangeAuthority", "Upgrade"} /\ lastOp.err = Ok) =>
          accounts[lastOp.addr] = [lastOp.pre EXCEPT !.nonce = lastOp.pre.nonce + 1]

\* the signature passed and the loader refused: the error is returned and the
\* record, one operation old, is as before
C4_Witness ==
    /\ lastOp.op = "ChangeAuthority"
    /\ lastOp.step = "cpi" /\ lastOp.err = LoaderError
    /\ lastOp.pre.nonce = 1
    /\ accounts[lastOp.addr] = lastOp.pre

\* the supplied record address is not the one derived from the resource id: the
\* contract argument (InitializeAdmin), the supplied program (Upgrade), the
\* contract stored in the supplied account (ChangePublicKey, ChangeAuthority)
Mismatch ==
    /\ lastOp.op \in Mutating \cup {"InitializeAdmin"}
    /\ ~lastOp.bound
    /\ lastOp.op \in {"ChangePublicKey", "ChangeAuthority"} => Deserializes(lastOp.pre)

AddressError == IF lastOp.op = "InitializeAdmin" THEN WrongAdmin ELSE WrongSeeds

\* C6 as claimed: every handler checks the address first, then the
\* initialization state, then the signature.
C6_Original ==
    /\ Mismatch => lastOp.err = AddressError
    /\ (lastOp.op \in Mutating /\ lastOp.bound /\ Deserializes(lastOp.pre)
          /\ ~lastOp.pre.is_initialized) => lastOp.err = NotInitialized
    /\ lastOp.err \in {WrongSignature, InvalidSignature} =>
          lastOp.bound /\ lastOp.pre.is_initialized

\* C6 Precondition order, amended: InitializeAdmin and Upgrade check the address
\* first (Upgrade the initialization state second); ChangePublicKey and
\* ChangeAuthority check the initialization state first and the address second;
\* every handler checks the signature last and returns the error of its first
\* failing check.
C6_HandlerOrder ==
    /\ (lastOp.op = "InitializeAdmin" /\ ~lastOp.bound) => lastOp.err = WrongAdmin
    /\ (lastOp.op = "Upgrade" /\ ~lastOp.bound) => lastOp.err = WrongSeeds
    /\ (lastOp.op = "Upgrade" /\ lastOp.bound /\ Deserializes(lastOp.pre)
          /\ ~lastOp.pre.is_initialized) => lastOp.err = NotInitialized
    /\ (lastOp.op \in {"ChangePublicKey", "ChangeAuthority"} /\ Deserializes(lastOp.pre)
          /\ ~lastOp.pre.is_initialized) => lastOp.err = NotInitialized
    /\ (lastOp.op \in {"ChangePublicKey", "ChangeAuthority"}
          /\ lastOp.pre.is_initialized /\ ~lastOp.bound) => lastOp.err = WrongSeeds
    /\ lastOp.err \in {WrongSignature, InvalidSignature} =>
          lastOp.bound /\ lastOp.pre.is_initialized /\ lastOp.verified
    /\ Addressed => lastOp.verified

\* ChangePublicKey on a zeroed account that is no derived address
C6_Witness ==
    /\ lastOp.op = "ChangePublicKey"
    /\ Mismatch /\ ~lastOp.pre.is_initialized
    /\ lastOp.err = NotInitialized

\* C7 as claimed: a mismatched address fails with WrongAdmin or WrongSeeds in
\* every operation, without signature verification and without a write.
C7_Original ==
    Mismatch =>
        /\ lastOp.err = AddressError
        /\ ~lastOp.verified
        /\ accounts[lastOp.addr] = lastOp.pre

\* C7 Address binding precedes the signature check, amended: with a mismatched
\* address InitializeAdmin fails with WrongAdmin, Upgrade with WrongSeeds,
\* ChangePublicKey and ChangeAuthority with WrongSeeds on an initialized record
\* and NotInitialized on an uninitialized one; in every case the signature is
\* not verified, no collaborator is invoked and the record is not modified.
C7_AddressBeforeSignature ==
    Mismatch =>
        /\ lastOp.err =
              IF lastOp.op \in {"ChangePublicKey", "ChangeAuthority"}
                    /\ ~lastOp.pre.is_initialized
              THEN NotInitialized ELSE AddressError
        /\ ~lastOp.verified
        /\ lastOp.cpi = NoCpi
        /\ accounts[lastOp.addr] = lastOp.pre

\* Upgrade on an account that is no derived address, with a signature of the
\* very key the account stores
C7_Witness ==
    /\ lastOp.op = "Upgrade" /\ Mismatch
    /\ lastOp.pre.is_initialized
    /\ lastOp.signedBy = lastOp.pre.public_key
    /\ lastOp.err = WrongSeeds /\ ~lastOp.verified

\* InitializeAdmin, at its derived address, of a record that is initialized
SecondInitialize ==
    lastOp.op = "InitializeAdmin" /\ lastOp.bound /\ lastOp.pre.is_initialized

C9_SingleInitialization ==
    /\ (lastOp.op # "none" /\ lastOp.pre.is_initialized) =>
          /\ accounts[lastOp.addr].is_initialized
          /\ accounts[lastOp.addr].contract = lastOp.pre.contract
    /\ (lastOp.op = "InitializeAdmin" /\ lastOp.pre.is_initialized) =>
          /\ lastOp.err # Ok
          /\ accounts[lastOp.addr] = lastOp.pre
    /\ (lastOp.op = "InitializeAdmin" /\ lastOp.err = Ok) =>
          /\ ~lastOp.pre.is_initialized
          /\ accounts[lastOp.addr].is_initialized

\* a well-formed InitializeAdmin with another key on a record that has already
\* been operated on
C9_Witness ==
    /\ SecondInitialize
    /\ lastOp.rent = RentSysvar
    /\ lastOp.pre.nonce > 0
    /\ lastOp.payload # KeyBytes(lastOp.pre.public_key)
    /\ accounts[lastOp.addr] = lastOp.pre

\* a signature-gated operation on existing record data whose flag is false
OnUninitialized ==
    lastOp.op \in Mutating /\ Deserializes(lastOp.pre) /\ ~lastOp.pre.is_initialized

\* C10 as claimed: every signature-gated operation on an uninitialized record
\* fails with NotInitialized.
C10_Original ==
    OnUninitialized =>
        /\ lastOp.err = NotInitialized
        /\ ~lastOp.verified /\ lastOp.cpi = NoCpi
        /\ accounts[lastOp.addr] = lastOp.pre

\* C10 amended: on an uninitialized record ChangePublicKey and ChangeAuthority
\* fail with NotInitialized; Upgrade fails with WrongSeeds when the address does
\* not match the supplied program and with NotInitialized when it does; none
\* verifies a signature, invokes a collaborator or modifies the record.
C10_Uninitialized ==
    OnUninitialized =>
        /\ lastOp.err = IF lastOp.op = "Upgrade" /\ ~lastOp.bound
                        THEN WrongSeeds ELSE NotInitialized
        /\ ~lastOp.verified /\ lastOp.cpi = NoCpi
        /\ accounts[lastOp.addr] = lastOp.pre

C10_Witness ==
    /\ OnUninitialized
    /\ lastOp.op = "ChangeAuthority"
    /\ lastOp.signedBy # 0
    /\ lastOp.err = NotInitialized

\* InitializeAdmin at the address derived from its contract argument, where no
\* account exists
FirstInitialize ==
    lastOp.op = "InitializeAdmin" /\ lastOp.bound /\ lastOp.pre = NoAccount

Recovered == secp256k1_recover(verifierCall.hash, verifierCall.reid, verifierCall.sig)

Decodable == lastOp.tag \in InstructionTags /\ lastOp.size = ArgsSize(lastOp.tag)

\* C13 Dispatch: an input that decodes runs the handler of its variant and no
\* other; an input with an unknown variant index or with a malformed payload
\* fails with the decode error before any handler runs: no signature is
\* verified, no collaborator is invoked and no record is written.
C13_Dispatch ==
    lastOp.op # "none" =>
        /\ Decodable => lastOp.op = VariantOf(lastOp.tag)
        /\ ~Decodable =>
              /\ lastOp.op = "undecoded"
              /\ lastOp.err = BorshIoError /\ lastOp.step = "dispatch"
              /\ ~lastOp.verified /\ lastOp.cpi = NoCpi
              /\ accounts[lastOp.addr] = lastOp.pre
        /\ lastOp.op = "undecoded" <=> lastOp.step = "dispatch"

\* an unknown variant index, aimed at an initialized record that has accepted
\* an operation
C13_Witness ==
    /\ lastOp.tag = UnknownTag /\ lastOp.op = "undecoded"
    /\ lastOp.pre.is_initialized /\ lastOp.pre.nonce = 1
    /\ lastOp.err = BorshIoError

\* C14 as claimed: the instruction built by initialize_admin(contract, ..,
\* public_key) names `contract` in its payload and lists (derived record
\* address, fee payer, system program, rent sysvar), so that processing it where
\* no record exists succeeds and leaves an initialized record bound to
\* `contract` with the given key.
C14_BuilderMatchesHandler ==
    lastOp.built =>
        /\ lastOp.op = "InitializeAdmin"
        /\ lastOp.addr = find_program_address(lastOp.asked)
        /\ lastOp.resource = lastOp.asked
        /\ lastOp.rent = RentSysvar
        /\ (lastOp.pre = NoAccount /\ lastOp.funded) =>
              /\ lastOp.err = Ok
              /\ accounts[lastOp.addr] =
                    UpgradeAdmin(lastOp.payload[1], lastOp.asked, 0, TRUE)

\* what the built instruction does instead: it is never accepted
BuiltNeverAccepted ==
    lastOp.built =>
        /\ lastOp.err = IF lastOp.asked = DefaultPubkey THEN InvalidArgument ELSE WrongAdmin
        /\ accounts[lastOp.addr] = lastOp.pre

\* ChangeAuthority or Upgrade invoked the loader
Invoked == lastOp.op \in {"ChangeAuthority", "Upgrade"} /\ lastOp.cpi # NoCpi

\* C15 The collaborator comes after the checks and before the write: the loader
\* is invoked only when the address, initialization and signature checks have
\* passed, with the authority (buffer) that the verified message names; the
\* incremented nonce is persisted only when the loader succeeded, and when it
\* fails its error is returned and the record is unchanged.
C15_CollaboratorOrder ==
    /\ Invoked =>
          /\ lastOp.bound /\ lastOp.pre.is_initialized /\ lastOp.verified
          /\ lastOp.signedBy = lastOp.pre.public_key
          /\ lastOp.cpi[1] = IF lastOp.op = "Upgrade" THEN "upgrade"
                             ELSE "set_upgrade_authority"
          /\ lastOp.accepted.msg =
                Message(lastOp.pre.contract, lastOp.pre.nonce, PubkeyBytes(lastOp.cpi[3]))
          /\ lastOp.step = "cpi" =>
                /\ lastOp.err = LoaderError
                /\ accounts[lastOp.addr] = lastOp.pre
    /\ (lastOp.op \in {"ChangeAuthority", "Upgrade"} /\ lastOp.err = Ok) => Invoked
    /\ (lastOp.op \in {"ChangeAuthority", "Upgrade"}
          /\ accounts[lastOp.addr] # lastOp.pre) =>
          Invoked /\ lastOp.step = "done" /\ lastOp.err = Ok

\* the loader refuses an upgrade of contract 1 to buffer 11 that the key holder
\* signed
C15_Witness ==
    /\ lastOp.op = "Upgrade"
    /\ lastOp.cpi = <<"upgrade", 1, 11>>
    /\ lastOp.pre.contract = 1
    /\ lastOp.err = LoaderError
    /\ accounts[lastOp.addr] = lastOp.pre

\* what one step does to the account at address a
FrameOf(a) ==
    /\ accounts[a].is_initialized =>
          /\ accounts'[a].is_initialized
          /\ accounts'[a].contract = accounts[a].contract
          /\ accounts'[a].len = accounts[a].len
    /\ accounts'[a] # accounts[a] =>
          /\ a = lastOp'.addr
          /\ lastOp'.err = Ok
          /\ CASE lastOp'.op \in {"ChangeAuthority", "Upgrade"} ->
                    accounts'[a] = [accounts[a] EXCEPT !.nonce = accounts[a].nonce + 1]
               [] lastOp'.op = "ChangePublicKey" ->
                    /\ accounts'[a].nonce = accounts[a].nonce + 1
                    /\ [accounts'[a] EXCEPT !.nonce = accounts[a].nonce,
                                            !.public_key = accounts[a].public_key]
                          = accounts[a]
               [] lastOp'.op = "InitializeAdmin" -> ~accounts[a].is_initialized
               [] OTHER -> FALSE

\* C16 Frame: no step changes the contract of an initialized record, clears its
\* flag or removes its data; a successful ChangeAuthority or Upgrade changes the
\* nonce only, a successful ChangePublicKey the key and the nonce only; and a
\* step changes no account but the record it was invoked on.
C16_Frame == [][\A a \in Addresses : FrameOf(a)]_vars

\* a ChangeAuthority has succeeded on one record while another, initialized at
\* its own derived address, stands beside it
C16_Witness ==
    /\ lastOp.op = "ChangeAuthority" /\ lastOp.err = Ok
    /\ accounts[lastOp.addr].public_key = lastOp.pre.public_key
    /\ accounts[lastOp.addr].nonce = lastOp.pre.nonce + 1
    /\ \E b \in Addresses \ {lastOp.addr} :
          /\ accounts[b].is_initialized
          /\ find_program_address(accounts[b].contract) = b

\* accounts the program did not create: their data is whatever their owner
\* put there
Foreign == {FakeAdmin, BlankAccount}

\* C17 Binding invariant: every initialized record the program stores is at the
\* address derived from its own contract, so no two initialized records have
\* the same contract; the accounts the program did not create are never
\* written.
C17_Binding ==
    /\ \A a \in Addresses \ Foreign :
          accounts[a].is_initialized => find_program_address(accounts[a].contract) = a
    /\ \A a, b \in Addresses \ Foreign :
          (accounts[a].is_initialized /\ accounts[b].is_initialized
             /\ accounts[a].contract = accounts[b].contract) => a = b
    /\ accounts[FakeAdmin] = UpgradeAdmin(202, 1, 0, TRUE)
    /\ accounts[BlankAccount] = Zeroed

\* both contracts have their record, one of them two operations old
C17_Witness ==
    /\ \A c \in Contracts : accounts[find_program_address(c)].is_initialized
    /\ \E c \in Contracts : accounts[find_program_address(c)].nonce = 2

\* C18 Operation separation of signatures: a signature is accepted only by the
\* handler of the operation kind its signer produced it for.
C18_OperationSeparation ==
    lastOp.accepted # NoSignature => lastOp.op = ProducedFor(lastOp.accepted)

\* what does hold: the 64-byte key of a rotation message and the 32-byte account
\* of the other two make messages of different lengths, so rotation signatures
\* and the others are not interchangeable
RotationSeparate ==
    lastOp.accepted # NoSignature =>
        (lastOp.op = "ChangePublicKey" <=> ProducedFor(lastOp.accepted) = "ChangePublicKey")

\* what the code does with an upgrade signature: ChangeAuthority accepts it and
\* hands the upgrade authority of the contract to the buffer's address
C18_Witness ==
    /\ lastOp.op = "ChangeAuthority" /\ lastOp.err = Ok
    /\ ProducedFor(lastOp.accepted) = "Upgrade"
    /\ lastOp.cpi = <<"set_upgrade_authority", lastOp.pre.contract, 11>>
    /\ lastOp.accepted.msg = Message(lastOp.pre.contract, lastOp.pre.nonce, PubkeyBytes(11))

\* C19 Upgrade target binding: whenever Upgrade invokes the loader, and so
\* whenever it succeeds, the program it names to the loader is the contract
\* stored in the record whose key verified the signature and the contract in the
\* signed message; an Upgrade naming another program than the record's contract
\* fails with WrongSeeds before the signature is looked at.
C19_UpgradeTarget ==
    /\ (lastOp.op = "Upgrade" /\ lastOp.cpi # NoCpi) =>
          /\ lastOp.cpi[2] = lastOp.resource
          /\ lastOp.cpi[2] = lastOp.pre.contract
          /\ lastOp.signedBy = lastOp.pre.public_key
          /\ lastOp.accepted.msg =
                Message(lastOp.cpi[2], lastOp.pre.nonce, PubkeyBytes(lastOp.cpi[3]))
    /\ (lastOp.op = "Upgrade" /\ lastOp.err = Ok) => lastOp.cpi # NoCpi
    /\ (lastOp.op = "Upgrade" /\ lastOp.pre.is_initialized
          /\ lastOp.resource # lastOp.pre.contract) =>
          /\ lastOp.err = WrongSeeds
          /\ lastOp.cpi = NoCpi /\ ~lastOp.verified

\* contract 1 is upgraded on its record's signature while contract 0 has a
\* record with the same key
C19_Witness ==
    /\ lastOp.op = "Upgrade" /\ lastOp.err = Ok
    /\ lastOp.cpi = <<"upgrade", 1, 11>>
    /\ lastOp.pre.contract = 1
    /\ accounts[find_program_address(DefaultPubkey)].is_initialized
    /\ accounts[find_program_address(DefaultPubkey)].public_key = lastOp.pre.public_key

====
